---- MODULE Spec2Model ----
(***************************************************************************)
(* Smart-Kiosk water vending firmware: the credit-and-dispense state       *)
(* machine of Testingg/arduinocode.cpp, with its sibling sketches          *)
(* arduino_debug.cpp, WaterArduino.cpp and the coin-only sketches.         *)
(*                                                                         *)
(* Conventions.                                                            *)
(*  - A sketch's globals are the module's variables; `Here' is the record  *)
(*    of their current values and every C++ function is an operator from   *)
(*    such a record to the record after the call, so that a handler that   *)
(*    calls other functions is the composition of their operators.         *)
(*  - millis() timestamps are kept as elapsed times: sinceCoinPulse is     *)
(*    millis() - lastCoinPulseTime, sinceActivity is millis() -            *)
(*    lastActivity, sinceCupRemoved is millis() - cupRemovedTime.  The     *)
(*    code only ever reads these differences.  `X = millis()' is           *)
(*    `sinceX = 0'; each saturates one past the largest threshold it is    *)
(*    compared with.                                                       *)
(*  - float values are exact rationals [k, n, d] (n/d), plus the IEEE      *)
(*    specials inf, nan and `big' (a finite value beyond 2^32).            *)
(*  - unsigned long differences that wrap are kept as the negative         *)
(*    integer r standing for 2^32 + r.                                     *)
(*  - Serial output is `out': the protocol lines printed by the last       *)
(*    step, each a pair <<keyword, argument>>.                             *)
(***************************************************************************)
EXTENDS Integers, Sequences, FiniteSets, TLC

VARIABLES
  pc,                \* position of loop(): which handler runs next
  currentMode,
  pulsesPerLiter,
  coin1P_pulses,
  coin5P_pulses,
  coin10P_pulses,
  sinceCoinPulse,    \* millis() - lastCoinPulseTime
  coinPulseCount,
  flowPulseCount,
  dispensing,
  creditML,
  targetPulses,
  startFlowCount,
  sinceActivity,     \* millis() - lastActivity
  sinceCupRemoved,   \* millis() - cupRemovedTime
  cupRemovedFlag,
  lastCupDetected,
  cupConsecutiveReadings,
  pump,              \* digitalWrite(PUMP_PIN, ..)
  valve,             \* digitalWrite(VALVE_PIN, ..)
  eeprom,            \* the four persisted calibration fields
  out,               \* Serial lines printed by the last step
  creditAtStart      \* history: the ml the last session was started with, kept
                     \* while that session runs or credit is left over from it

vars == <<pc, currentMode, pulsesPerLiter, coin1P_pulses, coin5P_pulses,
          coin10P_pulses, sinceCoinPulse, coinPulseCount, flowPulseCount,
          dispensing, creditML, targetPulses, startFlowCount, sinceActivity,
          sinceCupRemoved, cupRemovedFlag, lastCupDetected,
          cupConsecutiveReadings, pump, valve, eeprom, out, creditAtStart>>

-----------------------------------------------------------------------------
(* Program constants *)

COIN_DEBOUNCE_MS == 50
COIN_TIMEOUT_MS == 800
INACTIVITY_TIMEOUT == 300000
CUP_DISTANCE_CM == 10
CUP_REMOVED_GRACE_MS == 3000
WATER_MODE == 1
CHARGE_MODE == 2
DEFAULT_PULSES_PER_LITER == 450
MIN_PULSES_PER_LITER == 200
MAX_PULSES_PER_LITER == 1000
CAL_WAIT_MS == 10000

-----------------------------------------------------------------------------
(* Bounds of the model *)

MaxFlow == 35          \* flow pulses counted in one run
MaxCredit == 50        \* coins are inserted only while creditML <= MaxCredit
MaxCoinPulses == 3     \* longest coin burst
MaxFineTicks == 4      \* short time steps explored after the last activity

ShortStep == 800       \* a short time step, ms
TimeSteps == {ShortStep, INACTIVITY_TIMEOUT}
FlowSteps == {9, 13}   \* flow pulses arriving between two steps of loop()
Durations == {0, 500, 700, 1200}  \* echo durations (us) pulseIn may return
AbsentDurations == {0, 1200}        \* those of no cup within CUP_DISTANCE_CM

-----------------------------------------------------------------------------
(* float arithmetic *)

Fin(n, d) == [k |-> "fin", n |-> n, d |-> d]
Inf == [k |-> "inf", n |-> 0, d |-> 1]
NaN == [k |-> "nan", n |-> 0, d |-> 1]
Big == [k |-> "big", n |-> 0, d |-> 1]
NegInf == [k |-> "neginf", n |-> 0, d |-> 1]
NegBig == [k |-> "negbig", n |-> 0, d |-> 1]

Abs(x) == IF x < 0 THEN -x ELSE x
Min(a, b) == IF a < b THEN a ELSE b

\* (float) i - f
IntMinus(i, f) ==
  CASE f.k = "fin" -> Fin(i * f.d - f.n, f.d)
    [] f.k = "inf" -> NegInf
    [] f.k = "big" -> NegBig
    [] OTHER -> NaN

\* f < 0 (false for nan, as every comparison with nan)
IsNegative(f) == f.k \in {"neginf", "negbig"} \/ (f.k = "fin" /\ f.n < 0)

\* (int) f: truncation toward zero; the conversion of nan, an infinity or a
\* value out of int's range is undefined, and yields `ub'
ToInt(f, ub) ==
  IF f.k = "fin"
    THEN IF f.n >= 0 THEN f.n \div f.d ELSE -((-f.n) \div f.d)
    ELSE ub

\* Serial.print(f, 1): the value rounded to tenths (Print::printFloat adds
\* 0.05 to the magnitude and truncates); nan, inf and ovf print as words
PrintWords == [nan |-> -1000001, inf |-> -1000002, ovf |-> -1000003]
Tenths(f) ==
  CASE f.k = "fin" ->
         IF f.n >= 0 THEN (f.n * 20 + f.d) \div (2 * f.d)
                     ELSE -(((-f.n) * 20 + f.d) \div (2 * f.d))
    [] f.k = "nan" -> PrintWords.nan
    [] f.k \in {"inf", "neginf"} -> PrintWords.inf
    [] OTHER -> PrintWords.ovf

\* flowPulseCount - startFlowCount in unsigned long: a negative result r
\* stands for the wrapped value 2^32 + r
PulseDiff(flow, start) == flow - start

\* (unsigned long) p >= target, p possibly wrapped
ReachedTarget(p, target) == p < 0 \/ p >= target

\* p % m for a possibly wrapped p (2^32 = 16 mod 30, = 96 mod 100)
UMod(p, m) == IF p >= 0 THEN p % m ELSE ((4294 % m) * (1000000 % m) + 967296 + p) % m

-----------------------------------------------------------------------------
(* The sketch's globals as one record *)

Here ==
  [currentMode |-> currentMode, pulsesPerLiter |-> pulsesPerLiter,
   coin1P_pulses |-> coin1P_pulses, coin5P_pulses |-> coin5P_pulses,
   coin10P_pulses |-> coin10P_pulses, sinceCoinPulse |-> sinceCoinPulse,
   coinPulseCount |-> coinPulseCount, flowPulseCount |-> flowPulseCount,
   dispensing |-> dispensing, creditML |-> creditML,
   targetPulses |-> targetPulses, startFlowCount |-> startFlowCount,
   sinceActivity |-> sinceActivity, sinceCupRemoved |-> sinceCupRemoved,
   cupRemovedFlag |-> cupRemovedFlag, lastCupDetected |-> lastCupDetected,
   cupConsecutiveReadings |-> cupConsecutiveReadings,
   pump |-> pump, valve |-> valve, eeprom |-> eeprom, out |-> <<>>,
   creditAtStart |-> creditAtStart]

\* The globals after a step.  Two timestamps are kept only while the code
\* can read them: cupRemovedTime is read only under cupRemovedFlag, which is
\* set together with it, and lastActivity only decides the inactivity reset
\* with dispensing false, which every function that clears it (stopDispense,
\* stopDispenseEarly, resetSystem) enters by setting lastActivity.
Load(s) ==
  /\ currentMode' = s.currentMode
  /\ pulsesPerLiter' = s.pulsesPerLiter
  /\ coin1P_pulses' = s.coin1P_pulses
  /\ coin5P_pulses' = s.coin5P_pulses
  /\ coin10P_pulses' = s.coin10P_pulses
  /\ sinceCoinPulse' = s.sinceCoinPulse
  /\ coinPulseCount' = s.coinPulseCount
  /\ flowPulseCount' = s.flowPulseCount
  /\ dispensing' = s.dispensing
  /\ creditML' = s.creditML
  /\ targetPulses' = s.targetPulses
  /\ startFlowCount' = s.startFlowCount
  /\ sinceActivity' = IF s.dispensing THEN 0 ELSE s.sinceActivity
  /\ sinceCupRemoved' = IF s.cupRemovedFlag THEN s.sinceCupRemoved ELSE 0
  /\ cupRemovedFlag' = s.cupRemovedFlag
  /\ lastCupDetected' = s.lastCupDetected
  /\ cupConsecutiveReadings' = s.cupConsecutiveReadings
  /\ pump' = s.pump
  /\ valve' = s.valve
  /\ eeprom' = s.eeprom
  /\ out' = s.out
  /\ creditAtStart' = IF s.dispensing \/ s.creditML > 0 THEN s.creditAtStart ELSE 0

Say(s, keyword, arg) == [s EXCEPT !.out = Append(@, <<keyword, arg>>)]

\* the passage of d milliseconds, as seen through the elapsed times
Elapse(s, d) ==
  [s EXCEPT !.sinceCoinPulse = Min(@ + d, COIN_TIMEOUT_MS + 1),
            !.sinceCupRemoved = Min(@ + d, CUP_REMOVED_GRACE_MS + 1),
            !.sinceActivity = Min(@ + d, INACTIVITY_TIMEOUT + 1)]

\* the time steps explored: short ones shortly after the last activity, and
\* any step that reaches the inactivity timeout
CanElapse(s, d) ==
  \/ s.sinceActivity + d <= MaxFineTicks * ShortStep
  \/ s.sinceActivity + d >= INACTIVITY_TIMEOUT

-----------------------------------------------------------------------------
(* arduinocode.cpp *)

pulsesToML(s, pulses) ==
  IF s.pulsesPerLiter = 0
    THEN IF pulses = 0 THEN NaN ELSE Inf
    ELSE IF pulses < 0 THEN Big ELSE Fin(pulses * 1000, s.pulsesPerLiter)

\* (unsigned long)((ml / 1000.0) * pulsesPerLiter), ml > 0
TargetPulses(ml, ppl) == (ml * ppl) \div 1000

\* the raw reading of detectCup(): pulseIn's duration (us) to presence
detectCup(duration) ==
  IF duration = 0 THEN FALSE
  ELSE duration * 17 > 0 /\ duration * 17 < CUP_DISTANCE_CM * 1000

\* startDispense() as it would be with the integer division ml / 1000
startDispense_intDiv(s, ml) ==
  Say([s EXCEPT !.startFlowCount = s.flowPulseCount,
                !.targetPulses = (ml \div 1000) * s.pulsesPerLiter,
                !.pump = TRUE,
                !.valve = TRUE,
                !.dispensing = TRUE,
                !.cupRemovedFlag = FALSE,
                !.sinceActivity = 0,
                !.creditAtStart = ml],
      "DISPENSE_START", 0)

startDispense(s, ml) ==
  Say([s EXCEPT !.startFlowCount = s.flowPulseCount,
                !.targetPulses = TargetPulses(ml, s.pulsesPerLiter),
                !.pump = TRUE,
                !.valve = TRUE,
                !.dispensing = TRUE,
                !.cupRemovedFlag = FALSE,
                !.sinceActivity = 0,
                !.creditAtStart = ml],
      "DISPENSE_START", 0)

\* stopDispense() as it would be if it left cupRemovedFlag alone
stopDispense_keepFlag(s) ==
  LET dispensedPulses == PulseDiff(s.flowPulseCount, s.startFlowCount)
      dispensedML == pulsesToML(s, dispensedPulses)
  IN  [Say([s EXCEPT !.pump = FALSE, !.valve = FALSE, !.dispensing = FALSE],
           "DISPENSE_DONE", Tenths(dispensedML))
        EXCEPT !.creditML = 0, !.sinceActivity = 0]

stopDispense(s) ==
  LET dispensedPulses == PulseDiff(s.flowPulseCount, s.startFlowCount)
      dispensedML == pulsesToML(s, dispensedPulses)
  IN  [Say([s EXCEPT !.pump = FALSE, !.valve = FALSE, !.dispensing = FALSE,
                     !.cupRemovedFlag = FALSE],
           "DISPENSE_DONE", Tenths(dispensedML))
        EXCEPT !.creditML = 0, !.sinceActivity = 0]

\* stopDispenseEarly() as it would be with the credit cleared, as
\* stopDispense() clears it
stopDispenseEarly_cleared(s, ub) ==
  LET dispensedPulses == PulseDiff(s.flowPulseCount, s.startFlowCount)
      dispensedML == pulsesToML(s, dispensedPulses)
      remaining0 == IntMinus(s.creditML, dispensedML)
      remaining == IF IsNegative(remaining0) THEN Fin(0, 1) ELSE remaining0
  IN  [Say([s EXCEPT !.pump = FALSE, !.valve = FALSE, !.dispensing = FALSE,
                     !.cupRemovedFlag = FALSE],
           "CREDIT_LEFT", Tenths(remaining))
        EXCEPT !.creditML = 0, !.sinceActivity = 0]

\* stopDispenseEarly() as it would be if it left the session active
stopDispenseEarly_stillActive(s, ub) ==
  LET dispensedPulses == PulseDiff(s.flowPulseCount, s.startFlowCount)
      dispensedML == pulsesToML(s, dispensedPulses)
      remaining0 == IntMinus(s.creditML, dispensedML)
      remaining == IF IsNegative(remaining0) THEN Fin(0, 1) ELSE remaining0
  IN  [Say([s EXCEPT !.pump = FALSE, !.valve = FALSE,
                     !.cupRemovedFlag = FALSE],
           "CREDIT_LEFT", Tenths(remaining))
        EXCEPT !.creditML = ToInt(remaining, ub), !.sinceActivity = 0]

stopDispenseEarly(s, ub) ==
  LET dispensedPulses == PulseDiff(s.flowPulseCount, s.startFlowCount)
      dispensedML == pulsesToML(s, dispensedPulses)
      remaining0 == IntMinus(s.creditML, dispensedML)
      remaining == IF IsNegative(remaining0) THEN Fin(0, 1) ELSE remaining0
  IN  [Say([s EXCEPT !.pump = FALSE, !.valve = FALSE, !.dispensing = FALSE,
                     !.cupRemovedFlag = FALSE],
           "CREDIT_LEFT", Tenths(remaining))
        EXCEPT !.creditML = ToInt(remaining, ub), !.sinceActivity = 0]

resetSystem(s) ==
  [Say([s EXCEPT !.creditML = 0, !.dispensing = FALSE,
                 !.cupRemovedFlag = FALSE, !.pump = FALSE, !.valve = FALSE],
       "SYSTEM_RESET", 0)
    EXCEPT !.sinceActivity = 0]

\* handleCup() as it would be without the credit test of its first branch
handleCup_anyCredit(s, duration, ub) ==
  LET cupDetected == detectCup(duration) IN
  IF cupDetected /\ ~s.dispensing
    THEN startDispense([Say(s, "CUP_DETECTED", 0) EXCEPT !.cupRemovedFlag = FALSE],
                       s.creditML)
  ELSE IF ~cupDetected /\ s.dispensing
    THEN IF ~s.cupRemovedFlag
           THEN Say([s EXCEPT !.cupRemovedFlag = TRUE, !.sinceCupRemoved = 0],
                    "CUP_REMOVED", 0)
         ELSE IF s.sinceCupRemoved > CUP_REMOVED_GRACE_MS
           THEN [stopDispenseEarly(Say(s, "CUP_REMOVED", 1), ub)
                   EXCEPT !.cupRemovedFlag = FALSE]
         ELSE s
  ELSE IF cupDetected /\ s.dispensing /\ s.cupRemovedFlag
    THEN Say([s EXCEPT !.cupRemovedFlag = FALSE], "CUP_DETECTED", 1)
  ELSE IF ~cupDetected /\ ~s.dispensing /\ s.cupRemovedFlag
    THEN [s EXCEPT !.cupRemovedFlag = FALSE]
  ELSE s

\* handleCup() as it would be without the !dispensing test of its first branch
handleCup_rearmed(s, duration, ub) ==
  LET cupDetected == detectCup(duration) IN
  IF cupDetected /\ s.creditML > 0
    THEN startDispense([Say(s, "CUP_DETECTED", 0) EXCEPT !.cupRemovedFlag = FALSE],
                       s.creditML)
  ELSE IF ~cupDetected /\ s.dispensing
    THEN IF ~s.cupRemovedFlag
           THEN Say([s EXCEPT !.cupRemovedFlag = TRUE, !.sinceCupRemoved = 0],
                    "CUP_REMOVED", 0)
         ELSE IF s.sinceCupRemoved > CUP_REMOVED_GRACE_MS
           THEN [stopDispenseEarly(Say(s, "CUP_REMOVED", 1), ub)
                   EXCEPT !.cupRemovedFlag = FALSE]
         ELSE s
  ELSE IF cupDetected /\ s.dispensing /\ s.cupRemovedFlag
    THEN Say([s EXCEPT !.cupRemovedFlag = FALSE], "CUP_DETECTED", 1)
  ELSE IF ~cupDetected /\ ~s.dispensing /\ s.cupRemovedFlag
    THEN [s EXCEPT !.cupRemovedFlag = FALSE]
  ELSE s

\* handleCup() as it would be if the cup's return left cupRemovedFlag set
handleCup_noResume(s, duration, ub) ==
  LET cupDetected == detectCup(duration) IN
  IF cupDetected /\ s.creditML > 0 /\ ~s.dispensing
    THEN startDispense([Say(s, "CUP_DETECTED", 0) EXCEPT !.cupRemovedFlag = FALSE],
                       s.creditML)
  ELSE IF ~cupDetected /\ s.dispensing
    THEN IF ~s.cupRemovedFlag
           THEN Say([s EXCEPT !.cupRemovedFlag = TRUE, !.sinceCupRemoved = 0],
                    "CUP_REMOVED", 0)
         ELSE IF s.sinceCupRemoved > CUP_REMOVED_GRACE_MS
           THEN [stopDispenseEarly(Say(s, "CUP_REMOVED", 1), ub)
                   EXCEPT !.cupRemovedFlag = FALSE]
         ELSE s
  ELSE IF cupDetected /\ s.dispensing /\ s.cupRemovedFlag
    THEN Say(s, "CUP_DETECTED", 1)
  ELSE IF ~cupDetected /\ ~s.dispensing /\ s.cupRemovedFlag
    THEN [s EXCEPT !.cupRemovedFlag = FALSE]
  ELSE s

handleCup(s, duration, ub) ==
  LET cupDetected == detectCup(duration) IN
  IF cupDetected /\ s.creditML > 0 /\ ~s.dispensing
    THEN startDispense([Say(s, "CUP_DETECTED", 0) EXCEPT !.cupRemovedFlag = FALSE],
                       s.creditML)
  ELSE IF ~cupDetected /\ s.dispensing
    THEN IF ~s.cupRemovedFlag
           THEN Say([s EXCEPT !.cupRemovedFlag = TRUE, !.sinceCupRemoved = 0],
                    "CUP_REMOVED", 0)
         ELSE IF s.sinceCupRemoved > CUP_REMOVED_GRACE_MS
           THEN [stopDispenseEarly(Say(s, "CUP_REMOVED", 1), ub)
                   EXCEPT !.cupRemovedFlag = FALSE]
         ELSE s
  ELSE IF cupDetected /\ s.dispensing /\ s.cupRemovedFlag
    THEN Say([s EXCEPT !.cupRemovedFlag = FALSE], "CUP_DETECTED", 1)
  ELSE IF ~cupDetected /\ ~s.dispensing /\ s.cupRemovedFlag
    THEN [s EXCEPT !.cupRemovedFlag = FALSE]
  ELSE s

\* handleDispensing() as it would be with > for >= in the target test
handleDispensing_strict(s, ub) ==
  IF ~s.dispensing THEN s
  ELSE IF s.cupRemovedFlag /\ s.sinceCupRemoved > CUP_REMOVED_GRACE_MS
    THEN stopDispenseEarly(s, ub)
  ELSE
    LET dispensedPulses == PulseDiff(s.flowPulseCount, s.startFlowCount)
        dispensedML == pulsesToML(s, dispensedPulses)
        s1 == IF UMod(dispensedPulses, 30) = 0
                THEN Say(s, "DISPENSE_PROGRESS", Tenths(dispensedML))
                ELSE s
    IN  IF dispensedPulses < 0 \/ dispensedPulses > s.targetPulses
          THEN stopDispense(s1)
          ELSE s1

handleDispensing(s, ub) ==
  IF ~s.dispensing THEN s
  ELSE IF s.cupRemovedFlag /\ s.sinceCupRemoved > CUP_REMOVED_GRACE_MS
    THEN stopDispenseEarly(s, ub)
  ELSE
    LET dispensedPulses == PulseDiff(s.flowPulseCount, s.startFlowCount)
        dispensedML == pulsesToML(s, dispensedPulses)
        s1 == IF UMod(dispensedPulses, 30) = 0
                THEN Say(s, "DISPENSE_PROGRESS", Tenths(dispensedML))
                ELSE s
    IN  IF ReachedTarget(dispensedPulses, s.targetPulses)
          THEN stopDispense(s1)
          ELSE s1

\* classifyCoin without the tolerance of one pulse
classifyCoin_exact(s, pulses) ==
  IF pulses = s.coin1P_pulses THEN <<1, 50>>
  ELSE IF pulses = s.coin5P_pulses THEN <<5, 250>>
  ELSE IF pulses = s.coin10P_pulses THEN <<10, 500>>
  ELSE <<0, 0>>

\* the denomination handleCoin() matches a burst of `pulses' with:
\* <<peso, ml>>, or <<0, 0>> for no valid coin
classifyCoin(s, pulses) ==
  IF pulses >= s.coin1P_pulses - 1 /\ pulses <= s.coin1P_pulses + 1
    THEN <<1, 50>>
  ELSE IF pulses >= s.coin5P_pulses - 1 /\ pulses <= s.coin5P_pulses + 1
    THEN <<5, 250>>
  ELSE IF pulses >= s.coin10P_pulses - 1 /\ pulses <= s.coin10P_pulses + 1
    THEN <<10, 500>>
  ELSE <<0, 0>>

\* handleCoin() as it would be with = for += on the credit
handleCoin_assign(s) ==
  IF s.coinPulseCount > 0 /\ s.sinceCoinPulse > COIN_TIMEOUT_MS
    THEN
      LET pulses == s.coinPulseCount
          coin == classifyCoin(s, pulses)
          peso == coin[1]
          ml == coin[2]
          validCoin == peso # 0
      IN  IF validCoin
            THEN LET s1 == Say([s EXCEPT !.coinPulseCount = 0],
                               "COIN_INSERTED", peso)
                     s2 == IF s1.currentMode = WATER_MODE
                             THEN Say([s1 EXCEPT !.creditML = ml],
                                      "COIN_WATER", ml)
                           ELSE IF s1.currentMode = CHARGE_MODE
                             THEN Say(s1, "COIN_CHARGE", peso)
                           ELSE s1
                 IN  [s2 EXCEPT !.sinceActivity = 0]
            ELSE Say([s EXCEPT !.coinPulseCount = 0], "REJECTED", pulses)
    ELSE s

\* handleCoin() as it would be with >= for > in the quiet-period test
handleCoin_atTimeout(s) ==
  IF s.coinPulseCount > 0 /\ s.sinceCoinPulse >= COIN_TIMEOUT_MS
    THEN
      LET pulses == s.coinPulseCount
          coin == classifyCoin(s, pulses)
          peso == coin[1]
          ml == coin[2]
          validCoin == peso # 0
      IN  IF validCoin
            THEN LET s1 == Say([s EXCEPT !.coinPulseCount = 0],
                               "COIN_INSERTED", peso)
                     s2 == IF s1.currentMode = WATER_MODE
                             THEN Say([s1 EXCEPT !.creditML = @ + ml],
                                      "COIN_WATER", ml)
                           ELSE IF s1.currentMode = CHARGE_MODE
                             THEN Say(s1, "COIN_CHARGE", peso)
                           ELSE s1
                 IN  [s2 EXCEPT !.sinceActivity = 0]
            ELSE Say([s EXCEPT !.coinPulseCount = 0], "REJECTED", pulses)
    ELSE s

handleCoin(s) ==
  IF s.coinPulseCount > 0 /\ s.sinceCoinPulse > COIN_TIMEOUT_MS
    THEN
      LET pulses == s.coinPulseCount
          coin == classifyCoin(s, pulses)
          peso == coin[1]
          ml == coin[2]
          validCoin == peso # 0
      IN  IF validCoin
            THEN LET s1 == Say([s EXCEPT !.coinPulseCount = 0],
                               "COIN_INSERTED", peso)
                     s2 == IF s1.currentMode = WATER_MODE
                             THEN Say([s1 EXCEPT !.creditML = @ + ml],
                                      "COIN_WATER", ml)
                           ELSE IF s1.currentMode = CHARGE_MODE
                             THEN Say(s1, "COIN_CHARGE", peso)
                           ELSE s1
                 IN  [s2 EXCEPT !.sinceActivity = 0]
            ELSE Say([s EXCEPT !.coinPulseCount = 0], "REJECTED", pulses)
    ELSE s


\* waitForCoinPulse() x 3: b1, b2, b3 are the pulse counts the three waits
\* end with (0: the wait timed out with no pulse counted)
CalWait(b) == IF b > 0 THEN 2 * ShortStep ELSE CAL_WAIT_MS

calibrateCoins(s, b1, b2, b3) ==
  LET s1 == Elapse(s, CalWait(b1) + CalWait(b2) + CalWait(b3))
      s2 == [s1 EXCEPT !.coin1P_pulses = b1,
                       !.coin5P_pulses = b2,
                       !.coin10P_pulses = b3,
                       !.coinPulseCount = b3,
                       !.sinceCoinPulse = COIN_TIMEOUT_MS + 1,
                       !.eeprom = [@ EXCEPT !.c1 = b1, !.c5 = b2, !.c10 = b3]]
      t1 == IF b1 = 0 THEN Say(s2, "CAL_TIMEOUT", 1) ELSE s2
      t2 == IF b2 = 0 THEN Say(t1, "CAL_TIMEOUT", 5) ELSE t1
      t3 == IF b3 = 0 THEN Say(t2, "CAL_TIMEOUT", 10) ELSE t2
  IN  Say(Say(Say(Say(t3, "CAL_DONE", 0), "CAL_1", b1), "CAL_5", b2), "CAL_10", b3)

\* calibrateFlow(): n flow pulses are counted and d ms pass until DONE arrives
calibrateFlow(s, n, d) ==
  LET s1 == Elapse(s, d)
  IN  Say([s1 EXCEPT !.flowPulseCount = n,
                     !.pump = FALSE,
                     !.valve = FALSE,
                     !.pulsesPerLiter = n,
                     !.eeprom = [@ EXCEPT !.ppl = Fin(n, 1)]],
          "FLOWCAL_SAVED", n)

\* String::equalsIgnoreCase over the lines the host sends
ToUpper(line) ==
  CASE line = "reset" -> "RESET"
    [] line = "mode charge" -> "MODE CHARGE"
    [] line = "stop" -> "STOP"
    [] line = "start" -> "START"
    [] OTHER -> line

equalsIgnoreCase(line, word) == ToUpper(line) = word

B2I(b) == IF b THEN 1 ELSE 0

\* cmd = "" stands for !Serial.available()
handleSerialCommand(s, cmd, cal, n, d) ==
  IF cmd = "" THEN s
  ELSE IF equalsIgnoreCase(cmd, "CAL") THEN calibrateCoins(s, cal[1], cal[2], cal[3])
  ELSE IF equalsIgnoreCase(cmd, "FLOWCAL") THEN calibrateFlow(s, n, d)
  ELSE IF equalsIgnoreCase(cmd, "RESET") THEN resetSystem(s)
  ELSE IF equalsIgnoreCase(cmd, "MODE WATER")
    THEN Say([s EXCEPT !.currentMode = WATER_MODE], "MODE", WATER_MODE)
  ELSE IF equalsIgnoreCase(cmd, "MODE CHARGE")
    THEN Say([s EXCEPT !.currentMode = CHARGE_MODE], "MODE", CHARGE_MODE)
  ELSE IF equalsIgnoreCase(cmd, "STATUS")
    THEN LET s1 == Say(Say(Say(Say(s, "CREDIT_ML", s.creditML),
                               "DISPENSING", B2I(s.dispensing)),
                           "FLOW_PULSES", s.flowPulseCount),
                       "CUP_REMOVED_FLAG", B2I(s.cupRemovedFlag))
         IN  IF s.cupRemovedFlag
               THEN Say(s1, "TIME_SINCE_REMOVAL", s.sinceCupRemoved)
               ELSE s1
  ELSE s

\* the inactivity check as it would be with >= for >
checkInactivity_atTimeout(s) ==
  IF s.sinceActivity >= INACTIVITY_TIMEOUT /\ ~s.dispensing
    THEN resetSystem(s)
    ELSE s

\* the tail of loop(): the inactivity check
checkInactivity(s) ==
  IF s.sinceActivity > INACTIVITY_TIMEOUT /\ ~s.dispensing
    THEN resetSystem(s)
    ELSE s

\* coinISR() as it would be without the debounce test
coinISR_noDebounce(s) ==
  [s EXCEPT !.coinPulseCount = @ + 1, !.sinceCoinPulse = 0]

\* coinISR(): one falling edge on COIN_PIN
coinISR(s) ==
  IF s.sinceCoinPulse > COIN_DEBOUNCE_MS
    THEN [s EXCEPT !.coinPulseCount = @ + 1, !.sinceCoinPulse = 0]
    ELSE s

\* flowISR(), n times: n rising edges on FLOW_SENSOR_PIN
flowISR(s, n) == [s EXCEPT !.flowPulseCount = @ + n]

\* the range test of setup() as it would be without its upper bound
PersistedPPL_noUpper(f) ==
  IF f.k # "fin" \/ f.n < MIN_PULSES_PER_LITER * f.d
    THEN DEFAULT_PULSES_PER_LITER
    ELSE f.n \div f.d

\* setup(): the globals after boot, from the persisted fields
PersistedPPL(f) ==
  IF f.k # "fin" \/ f.n < MIN_PULSES_PER_LITER * f.d
                 \/ f.n > MAX_PULSES_PER_LITER * f.d
    THEN DEFAULT_PULSES_PER_LITER
    ELSE f.n \div f.d

setup(stored) ==
  [currentMode |-> WATER_MODE,
   pulsesPerLiter |-> PersistedPPL(stored.ppl),
   coin1P_pulses |-> stored.c1, coin5P_pulses |-> stored.c5,
   coin10P_pulses |-> stored.c10,
   sinceCoinPulse |-> 0, coinPulseCount |-> 0, flowPulseCount |-> 0,
   dispensing |-> FALSE, creditML |-> 0, targetPulses |-> 0,
   startFlowCount |-> 0, sinceActivity |-> 0, sinceCupRemoved |-> 0,
   cupRemovedFlag |-> FALSE, lastCupDetected |-> FALSE,
   cupConsecutiveReadings |-> 0, pump |-> FALSE, valve |-> FALSE,
   eeprom |-> stored, out |-> <<"READY", 0>>, creditAtStart |-> 0]

-----------------------------------------------------------------------------
(* Inputs *)

\* the lines the host sends in normal operation ("": none is waiting), and
\* with the two blocking calibration procedures
Lines == {"", "RESET", "reset", "MODE WATER", "MODE CHARGE", "STATUS", "START",
          "STOP", "ADD100", "PING"}
LinesCal == Lines \cup {"CAL", "FLOWCAL"}
CalBursts == {<<0, 0, 0>>, <<2, 0, 6>>, <<1, 3, 5>>}
NoCal == <<0, 0, 0>>
CalFlowPulses == {0, 20}
Factory == [c1 |-> 1, c5 |-> 3, c10 |-> 5, ppl |-> Fin(450, 1)]
Erased == [c1 |-> -1, c5 |-> -1, c10 |-> -1, ppl |-> NaN]
StoredEEPROM == {Factory}
\* what an undefined float-to-int conversion may yield
UndefinedInts == {0, -32768}

-----------------------------------------------------------------------------
(* arduinocode.cpp: loop(), the interrupts and time *)

\* the variables hold the globals s
Started(s) ==
  /\ currentMode = s.currentMode
  /\ pulsesPerLiter = s.pulsesPerLiter
  /\ coin1P_pulses = s.coin1P_pulses
  /\ coin5P_pulses = s.coin5P_pulses
  /\ coin10P_pulses = s.coin10P_pulses
  /\ sinceCoinPulse = s.sinceCoinPulse
  /\ coinPulseCount = s.coinPulseCount
  /\ flowPulseCount = s.flowPulseCount
  /\ dispensing = s.dispensing
  /\ creditML = s.creditML
  /\ targetPulses = s.targetPulses
  /\ startFlowCount = s.startFlowCount
  /\ sinceActivity = s.sinceActivity
  /\ sinceCupRemoved = s.sinceCupRemoved
  /\ cupRemovedFlag = s.cupRemovedFlag
  /\ lastCupDetected = s.lastCupDetected
  /\ cupConsecutiveReadings = s.cupConsecutiveReadings
  /\ pump = s.pump
  /\ valve = s.valve
  /\ eeprom = s.eeprom
  /\ out = <<s.out>>
  /\ creditAtStart = s.creditAtStart

Init ==
  /\ pc = "serial"
  /\ \E stored \in StoredEEPROM : Started(setup(stored))

SerialStep(lines) ==
  /\ pc = "serial"
  /\ \E cmd \in lines :
       \E cal \in (IF cmd = "CAL" THEN CalBursts ELSE {NoCal}) :
         \E n \in (IF cmd = "FLOWCAL" THEN CalFlowPulses ELSE {0}) :
           \E d \in (IF cmd = "FLOWCAL" THEN {dd \in TimeSteps : CanElapse(Here, dd)} ELSE {0}) :
             Load(handleSerialCommand(Here, cmd, cal, n, d))
  /\ pc' = "coin"

LoopSerial == SerialStep(Lines)

LoopCoin ==
  /\ pc = "coin"
  /\ Load(handleCoin(Here))
  /\ pc' = "cup"

CupStep(durations) ==
  /\ pc = "cup"
  /\ \E duration \in durations : \E ub \in UndefinedInts :
       Load(handleCup(Here, duration, ub))
  /\ pc' = "dispense"

LoopCup == CupStep(Durations)

LoopDispensing ==
  /\ pc = "dispense"
  /\ \E ub \in UndefinedInts : Load(handleDispensing(Here, ub))
  /\ pc' = "idle"

LoopIdle ==
  /\ pc = "idle"
  /\ Load(checkInactivity(Here))
  /\ pc' = "serial"

CoinEdge ==
  /\ pc = "serial"
  /\ coinPulseCount < MaxCoinPulses
  /\ creditML <= MaxCredit
  /\ Load(coinISR(Here))
  /\ UNCHANGED pc

FlowEdges ==
  /\ pc \in {"serial", "dispense"}
  /\ \E n \in FlowSteps :
       /\ flowPulseCount + n <= MaxFlow
       /\ Load(flowISR(Here, n))
  /\ UNCHANGED pc

Tick ==
  /\ pc = "serial"
  /\ \E d \in TimeSteps :
       /\ CanElapse(Here, d)
       /\ Load(Elapse(Here, d))
  /\ UNCHANGED pc

Next ==
  \/ LoopSerial
  \/ LoopCoin
  \/ LoopCup
  \/ LoopDispensing
  \/ LoopIdle
  \/ CoinEdge
  \/ FlowEdges
  \/ Tick

Spec == Init /\ [][Next]_vars

-----------------------------------------------------------------------------
(* arduino_debug.cpp.  Its globals are a subset of arduinocode.cpp's;       *)
(* handleCup's static lastCupState is kept in lastCupDetected.              *)

DBG_CUP_DISTANCE_CM == 15
DBG_PULSES_PER_LITER == 450

dbg_detectCup(duration) ==
  IF duration = 0 THEN FALSE
  ELSE duration * 17 > 0 /\ duration * 17 < DBG_CUP_DISTANCE_CM * 1000

dbg_startDispense(s, ml) ==
  Say([s EXCEPT !.startFlowCount = s.flowPulseCount,
                !.targetPulses = TargetPulses(ml, s.pulsesPerLiter),
                !.pump = TRUE,
                !.valve = TRUE,
                !.dispensing = TRUE,
                !.cupRemovedFlag = FALSE,
                !.creditAtStart = ml],
      "DISPENSE_START", 0)

dbg_stopDispense(s) ==
  LET dispensedPulses == PulseDiff(s.flowPulseCount, s.startFlowCount)
      dispensedML == pulsesToML(s, dispensedPulses)
  IN  [Say([s EXCEPT !.pump = FALSE, !.valve = FALSE, !.dispensing = FALSE],
           "DISPENSE_DONE", Tenths(dispensedML))
        EXCEPT !.creditML = 0]

dbg_stopDispenseEarly(s, ub) ==
  LET dispensedPulses == PulseDiff(s.flowPulseCount, s.startFlowCount)
      dispensedML == pulsesToML(s, dispensedPulses)
      remaining == IntMinus(s.creditML, dispensedML)
  IN  [Say([s EXCEPT !.pump = FALSE, !.valve = FALSE, !.dispensing = FALSE],
           "CREDIT_LEFT", Tenths(remaining))
        EXCEPT !.creditML = ToInt(remaining, ub)]

dbg_handleCup(s, duration, ub) ==
  LET cupDetected == dbg_detectCup(duration)
      s1 == IF cupDetected # s.lastCupDetected
              THEN Say([s EXCEPT !.lastCupDetected = cupDetected],
                       IF cupDetected THEN "CUP_DETECTED" ELSE "CUP_REMOVED", 0)
              ELSE s
  IN
  IF cupDetected /\ s1.creditML > 0 /\ ~s1.dispensing
    THEN dbg_startDispense(s1, s1.creditML)
  ELSE IF ~cupDetected /\ s1.dispensing
    THEN IF ~s1.cupRemovedFlag
           THEN [s1 EXCEPT !.cupRemovedFlag = TRUE, !.sinceCupRemoved = 0]
         ELSE IF s1.sinceCupRemoved > CUP_REMOVED_GRACE_MS
           THEN [dbg_stopDispenseEarly(s1, ub) EXCEPT !.cupRemovedFlag = FALSE]
         ELSE s1
  ELSE IF cupDetected /\ s1.dispensing /\ s1.cupRemovedFlag
    THEN [s1 EXCEPT !.cupRemovedFlag = FALSE]
  ELSE s1

dbg_handleDispensing(s, ub) ==
  IF ~s.dispensing THEN s
  ELSE IF s.cupRemovedFlag /\ s.sinceCupRemoved > CUP_REMOVED_GRACE_MS
    THEN dbg_stopDispenseEarly(s, ub)
  ELSE
    LET dispensedPulses == PulseDiff(s.flowPulseCount, s.startFlowCount)
        dispensedML == pulsesToML(s, dispensedPulses)
        s1 == IF UMod(dispensedPulses, 100) = 0
                THEN Say(s, "DISPENSE_PROGRESS", Tenths(dispensedML))
                ELSE s
    IN  IF ReachedTarget(dispensedPulses, s.targetPulses)
          THEN dbg_stopDispense(s1)
          ELSE s1

\* String::operator== : the line as sent, case and all
dbg_handleSerialCommand(s, cmd, ub) ==
  IF cmd = "" THEN s
  ELSE IF cmd = "ADD100" THEN [s EXCEPT !.creditML = @ + 100]
  ELSE IF cmd = "ADD500" THEN [s EXCEPT !.creditML = @ + 500]
  ELSE IF cmd = "CUP_ON"
    THEN IF s.creditML > 0 /\ ~s.dispensing
           THEN dbg_startDispense(s, s.creditML)
           ELSE s
  ELSE IF cmd = "CUP_OFF" THEN s
  ELSE IF cmd = "START"
    THEN IF s.creditML > 0
           THEN dbg_startDispense(s, s.creditML)
           ELSE Say(s, "NO_CREDIT", 0)
  ELSE IF cmd = "STOP" THEN dbg_stopDispenseEarly(s, ub)
  ELSE IF cmd = "STATUS"
    THEN Say(Say(Say(Say(Say(s, "CREDIT_ML", s.creditML),
                         "DISPENSING", B2I(s.dispensing)),
                     "FLOW_PULSES", s.flowPulseCount),
                 "PUMP_PIN", B2I(s.pump)),
             "VALVE_PIN", B2I(s.valve))
  ELSE IF cmd = "RESET"
    THEN Say([s EXCEPT !.creditML = 0, !.dispensing = FALSE,
                       !.pump = FALSE, !.valve = FALSE],
             "SYSTEM_RESET", 0)
  ELSE s

\* the globals' initializers and setup()
dbg_setup ==
  [setup(Factory) EXCEPT !.pulsesPerLiter = DBG_PULSES_PER_LITER,
                         !.currentMode = WATER_MODE]

MaxFlowManual == 45    \* flow pulses counted by the sketches credited by hand

ManualFlowSteps == {15}

DbgLines == {"", "ADD100", "CUP_ON", "CUP_OFF", "START", "STOP", "stop",
             "STATUS", "RESET"}

\* the host adds credit by hand only when none is left, and stops sending
\* STOP once the credit shown is negative
Offered(lines) ==
  {cmd \in lines :
     /\ cmd \in {"ADD100", "ADD500"} => creditML <= 0
     /\ cmd \in {"STOP", "stop"} => creditML >= 0}

\* Load for arduino_debug.cpp: cupRemovedTime is again read only under
\* cupRemovedFlag; there is no lastActivity
dbg_Load(s) ==
  Load([s EXCEPT !.sinceActivity = 0])

InitDebug ==
  /\ pc = "dbg_serial"
  /\ Started(dbg_setup)

DbgLoopSerial ==
  /\ pc = "dbg_serial"
  /\ \E cmd \in Offered(DbgLines) : \E ub \in UndefinedInts :
       dbg_Load(dbg_handleSerialCommand(Here, cmd, ub))
  /\ pc' = "dbg_cup"

DbgLoopCup ==
  /\ pc = "dbg_cup"
  /\ \E duration \in Durations : \E ub \in UndefinedInts :
       dbg_Load(dbg_handleCup(Here, duration, ub))
  /\ pc' = "dbg_dispense"

DbgLoopDispensing ==
  /\ pc = "dbg_dispense"
  /\ \E ub \in UndefinedInts : dbg_Load(dbg_handleDispensing(Here, ub))
  /\ pc' = "dbg_serial"

DbgFlowEdges ==
  /\ pc \in {"dbg_serial", "dbg_dispense"}
  /\ \E n \in ManualFlowSteps :
       /\ flowPulseCount + n <= MaxFlowManual
       /\ dbg_Load(flowISR(Here, n))
  /\ UNCHANGED pc

DbgTick ==
  /\ pc = "dbg_serial"
  /\ \E d \in TimeSteps : dbg_Load(Elapse(Here, d))
  /\ UNCHANGED pc

NextDebug ==
  \/ DbgLoopSerial
  \/ DbgLoopCup
  \/ DbgLoopDispensing
  \/ DbgFlowEdges
  \/ DbgTick

SpecDebug == InitDebug /\ [][NextDebug]_vars

-----------------------------------------------------------------------------
(* WaterArduino.cpp: the water half of the two-board build.  No coin        *)
(* interrupt is attached; credit arrives over serial.                       *)

MaxReadings == 3   \* cupConsecutiveReadings is counted up to this value

\* detectCup(): <<globals after the reading, reliableDetection>>.  The
\* counter is compared with 3 only, and is counted no further than
\* MaxReadings.
wa_detectCup(s, duration) ==
  IF duration = 0 THEN <<s, FALSE>>
  ELSE
    LET currentCupState == duration * 17 > 0 /\ duration * 17 < CUP_DISTANCE_CM * 1000
        s1 == IF currentCupState = s.lastCupDetected
                THEN [s EXCEPT !.cupConsecutiveReadings = Min(@ + 1, MaxReadings)]
                ELSE [s EXCEPT !.cupConsecutiveReadings = 0]
    IN  <<s1, s1.cupConsecutiveReadings >= 3 /\ currentCupState>>

wa_startDispense(s, ml) ==
  Say(Say([s EXCEPT !.startFlowCount = s.flowPulseCount,
                    !.targetPulses = TargetPulses(ml, s.pulsesPerLiter),
                    !.pump = TRUE,
                    !.valve = TRUE,
                    !.dispensing = TRUE,
                    !.cupRemovedFlag = FALSE,
                    !.sinceActivity = 0,
                    !.creditAtStart = ml],
          "DISPENSE_START", 0),
      "DISPENSE_TARGET", ml)

wa_stopDispense(s) ==
  LET dispensedPulses == PulseDiff(s.flowPulseCount, s.startFlowCount)
      dispensedML == pulsesToML(s, dispensedPulses)
  IN  [Say([s EXCEPT !.pump = FALSE, !.valve = FALSE, !.dispensing = FALSE,
                     !.cupRemovedFlag = FALSE],
           "DISPENSE_DONE", Tenths(dispensedML))
        EXCEPT !.creditML = 0, !.sinceActivity = 0]

wa_stopDispenseEarly(s, ub) ==
  LET dispensedPulses == PulseDiff(s.flowPulseCount, s.startFlowCount)
      dispensedML == pulsesToML(s, dispensedPulses)
      remaining0 == IntMinus(s.creditML, dispensedML)
      remaining == IF IsNegative(remaining0) THEN Fin(0, 1) ELSE remaining0
  IN  [Say([s EXCEPT !.pump = FALSE, !.valve = FALSE, !.dispensing = FALSE,
                     !.cupRemovedFlag = FALSE],
           "CREDIT_LEFT", Tenths(remaining))
        EXCEPT !.creditML = ToInt(remaining, ub), !.sinceActivity = 0]

wa_resetSystem(s) ==
  [Say([s EXCEPT !.creditML = 0, !.dispensing = FALSE,
                 !.cupRemovedFlag = FALSE, !.lastCupDetected = FALSE,
                 !.cupConsecutiveReadings = 0,
                 !.pump = FALSE, !.valve = FALSE],
       "SYSTEM_RESET", 0)
    EXCEPT !.sinceActivity = 0]

wa_handleCup(s, duration, ub) ==
  LET reading == wa_detectCup(s, duration)
      s1 == reading[1]
      cupDetected == reading[2]
  IN
  IF cupDetected /\ ~s1.lastCupDetected
    THEN LET s2 == Say([s1 EXCEPT !.lastCupDetected = TRUE,
                                  !.cupRemovedFlag = FALSE],
                       "CUP_DETECTED", 0)
         IN  IF s2.creditML > 0 /\ ~s2.dispensing
               THEN wa_startDispense(Say(s2, "AUTO_START_DISPENSE", 0), s2.creditML)
               ELSE s2
  ELSE IF ~cupDetected /\ s1.lastCupDetected
    THEN LET s2 == IF ~s1.cupRemovedFlag
                     THEN Say([s1 EXCEPT !.cupRemovedFlag = TRUE,
                                         !.sinceCupRemoved = 0],
                              "CUP_REMOVED", 0)
                   ELSE IF s1.sinceCupRemoved > CUP_REMOVED_GRACE_MS
                     THEN [wa_stopDispenseEarly(Say(s1, "CUP_REMOVED", 1), ub)
                             EXCEPT !.cupRemovedFlag = FALSE]
                   ELSE s1
         IN  [s2 EXCEPT !.lastCupDetected = FALSE]
  ELSE IF cupDetected /\ s1.dispensing /\ s1.cupRemovedFlag
    THEN Say([s1 EXCEPT !.cupRemovedFlag = FALSE], "CUP_DETECTED", 1)
  ELSE IF ~cupDetected /\ ~s1.dispensing /\ s1.cupRemovedFlag
    THEN [s1 EXCEPT !.cupRemovedFlag = FALSE]
  ELSE s1

\* due: more than a second has passed since the last progress line (the
\* static lastProgress is not among the variables)
wa_handleDispensing(s, ub, due) ==
  IF ~s.dispensing THEN s
  ELSE IF s.currentMode = WATER_MODE /\ s.cupRemovedFlag
          /\ s.sinceCupRemoved > CUP_REMOVED_GRACE_MS
    THEN wa_stopDispenseEarly(s, ub)
  ELSE
    LET dispensedPulses == PulseDiff(s.flowPulseCount, s.startFlowCount)
        dispensedML == pulsesToML(s, dispensedPulses)
        s1 == IF due
                THEN Say(s, "DISPENSE_PROGRESS", Tenths(dispensedML))
                ELSE s
    IN  IF ReachedTarget(dispensedPulses, s.targetPulses)
          THEN wa_stopDispense(s1)
          ELSE s1

wa_handleSerialCommand(s, cmd, n, d, ub) ==
  IF cmd = "" THEN s
  ELSE IF equalsIgnoreCase(cmd, "CAL") THEN calibrateCoins(s, 0, 0, 0)
  ELSE IF equalsIgnoreCase(cmd, "FLOWCAL") THEN calibrateFlow(s, n, d)
  ELSE IF equalsIgnoreCase(cmd, "RESET") THEN wa_resetSystem(s)
  ELSE IF equalsIgnoreCase(cmd, "MODE WATER")
    THEN Say([s EXCEPT !.currentMode = WATER_MODE], "MODE", WATER_MODE)
  ELSE IF equalsIgnoreCase(cmd, "MODE CHARGE")
    THEN Say([s EXCEPT !.currentMode = CHARGE_MODE], "MODE", CHARGE_MODE)
  ELSE IF equalsIgnoreCase(cmd, "START")
    THEN IF s.currentMode = WATER_MODE /\ s.creditML > 0 /\ ~s.dispensing
           THEN Say(wa_startDispense(s, s.creditML), "MANUAL_START", 0)
           ELSE Say(s, "ERROR", 0)
  ELSE IF equalsIgnoreCase(cmd, "STOP")
    THEN IF s.dispensing
           THEN Say(wa_stopDispenseEarly(s, ub), "MANUAL_STOP", 0)
           ELSE s
  ELSE IF equalsIgnoreCase(cmd, "ADD100")
    THEN IF s.currentMode = WATER_MODE
           THEN Say([s EXCEPT !.creditML = @ + 100], "ADDED_CREDIT", s.creditML + 100)
           ELSE s
  ELSE IF equalsIgnoreCase(cmd, "ADD500")
    THEN IF s.currentMode = WATER_MODE
           THEN Say([s EXCEPT !.creditML = @ + 500], "ADDED_CREDIT", s.creditML + 500)
           ELSE s
  ELSE IF equalsIgnoreCase(cmd, "STATUS")
    THEN LET s1 == Say(Say(Say(Say(Say(Say(s, "STATUS_MODE", s.currentMode),
                                       "STATUS_CREDIT_ML", s.creditML),
                                   "STATUS_DISPENSING", B2I(s.dispensing)),
                               "STATUS_FLOW_PULSES", s.flowPulseCount),
                           "STATUS_CUP_REMOVED_FLAG", B2I(s.cupRemovedFlag)),
                       "STATUS_CUP_DETECTED", B2I(s.lastCupDetected))
         IN  IF s.cupRemovedFlag
               THEN Say(s1, "STATUS_TIME_SINCE_REMOVAL", s.sinceCupRemoved)
               ELSE s1
  ELSE s

\* the tail of loop()
wa_checkInactivity(s) ==
  IF s.sinceActivity > INACTIVITY_TIMEOUT /\ ~s.dispensing
    THEN wa_resetSystem(s)
    ELSE s

wa_setup(stored) ==
  [setup(stored) EXCEPT !.out = <<"WATER_ARDUINO_READY", 0>>]

WaLines == {"", "RESET", "MODE WATER", "MODE CHARGE", "mode charge", "START",
            "start", "STOP", "stop", "ADD100", "STATUS", "PING"}

InitWater ==
  /\ pc = "wa_serial"
  /\ Started(wa_setup(Factory))

\* no coin interrupt: lastCoinPulseTime is never written
wa_Load(s) ==
  Load([s EXCEPT !.sinceCoinPulse = 0])

WaLoopSerial ==
  /\ pc = "wa_serial"
  /\ \E cmd \in Offered(WaLines) : \E ub \in UndefinedInts :
       wa_Load(wa_handleSerialCommand(Here, cmd, 0, 0, ub))
  /\ pc' = "wa_cup"

WaLoopCup ==
  /\ pc = "wa_cup"
  /\ IF currentMode = WATER_MODE
       THEN \E duration \in Durations : \E ub \in UndefinedInts :
              wa_Load(wa_handleCup(Here, duration, ub))
       ELSE wa_Load(Here)
  /\ pc' = "wa_dispense"

WaLoopDispensing ==
  /\ pc = "wa_dispense"
  /\ \E ub \in UndefinedInts : \E due \in BOOLEAN :
       wa_Load(wa_handleDispensing(Here, ub, due))
  /\ pc' = "wa_idle"

WaLoopIdle ==
  /\ pc = "wa_idle"
  /\ wa_Load(wa_checkInactivity(Here))
  /\ pc' = "wa_serial"

WaFlowEdges ==
  /\ pc \in {"wa_serial", "wa_dispense"}
  /\ \E n \in ManualFlowSteps :
       /\ flowPulseCount + n <= MaxFlowManual
       /\ wa_Load(flowISR(Here, n))
  /\ UNCHANGED pc

WaTick ==
  /\ pc = "wa_serial"
  /\ \E d \in TimeSteps :
       /\ CanElapse(Here, d)
       /\ wa_Load(Elapse(Here, d))
  /\ UNCHANGED pc

NextWater ==
  \/ WaLoopSerial
  \/ WaLoopCup
  \/ WaLoopDispensing
  \/ WaLoopIdle
  \/ WaFlowEdges
  \/ WaTick

SpecWater == InitWater /\ [][NextWater]_vars

\* WaterArduino.cpp with the cup taken away for the whole of every session:
\* while dispensing, every reading is one of no cup in range.  loop() runs
\* for ever and time passes, whatever the host and the flow sensor do.
WaLoopCupAway ==
  /\ pc = "wa_cup"
  /\ IF currentMode = WATER_MODE
       THEN \E duration \in (IF dispensing THEN AbsentDurations ELSE Durations) :
              \E ub \in UndefinedInts :
                wa_Load(wa_handleCup(Here, duration, ub))
       ELSE wa_Load(Here)
  /\ pc' = "wa_dispense"

NextWaterAway ==
  \/ WaLoopSerial
  \/ WaLoopCupAway
  \/ WaLoopDispensing
  \/ WaLoopIdle
  \/ WaFlowEdges
  \/ WaTick

SpecWaterAway ==
  /\ InitWater
  /\ [][NextWaterAway]_vars
  /\ WF_vars(WaLoopSerial)
  /\ WF_vars(WaLoopCupAway)
  /\ WF_vars(WaLoopDispensing)
  /\ WF_vars(WaLoopIdle)
  /\ SF_vars(WaTick)

-----------------------------------------------------------------------------
(* The two sketches of the kiosk itself: the single-board arduinocode.cpp   *)
(* and the water board WaterArduino.cpp                                     *)

InitProd == Init \/ InitWater

NextProd == Next \/ NextWater

SpecProd == InitProd /\ [][NextProd]_vars

-----------------------------------------------------------------------------
(* CoinArduino.cpp and SimpleCoinTest.cpp: the coin boards.  pulseCount is  *)
(* kept in coinPulseCount and lastCoinTime / lastPulseTime in               *)
(* sinceCoinPulse.  Their ranges are written into the code; the signature   *)
(* variables hold 1, 3, 5, the values the ranges are built around.          *)

CA_DEBOUNCE_MS == 50
CA_QUIET_MS == 500
CA_DELAY_MS == 10
SCT_DEBOUNCE_MS == 50
SCT_QUIET_MS == 500
SCT_DELAY_MS == 10

MaxBurst == 7      \* longest coin burst where bursts are what is studied

ca_coinISR(s) ==
  IF s.sinceCoinPulse > CA_DEBOUNCE_MS
    THEN [s EXCEPT !.coinPulseCount = @ + 1, !.sinceCoinPulse = 0]
    ELSE s

\* the body of loop() before delay(10)
ca_loop(s) ==
  IF s.coinPulseCount > 0 /\ s.sinceCoinPulse > CA_QUIET_MS
    THEN LET pulses == s.coinPulseCount
             s1 == [s EXCEPT !.coinPulseCount = 0]
         IN  IF pulses = 1
               THEN Say(Say(s1, "COIN_INSERTED", 1), "COIN_WATER", 50)
             ELSE IF pulses = 2
               THEN Say(Say(s1, "COIN_INSERTED", 1), "COIN_WATER", 50)
             ELSE IF pulses = 3
               THEN Say(Say(s1, "COIN_INSERTED", 5), "COIN_WATER", 250)
             ELSE IF pulses = 4
               THEN Say(Say(s1, "COIN_INSERTED", 5), "COIN_WATER", 250)
             ELSE IF pulses >= 5 /\ pulses <= 7
               THEN Say(Say(s1, "COIN_INSERTED", 10), "COIN_WATER", 500)
             ELSE Say(s1, "COIN_UNKNOWN", pulses)
    ELSE s

ca_setup ==
  [setup(Factory) EXCEPT !.out = <<"COIN_ARDUINO_READY", 0>>]

sct_coinPulse(s) ==
  IF s.sinceCoinPulse > SCT_DEBOUNCE_MS
    THEN [s EXCEPT !.coinPulseCount = @ + 1, !.sinceCoinPulse = 0]
    ELSE s

\* the body of loop() before delay(10); beat: the heartbeat is due (the
\* static lastHeartbeat is not among the variables)
sct_loop(s, beat) ==
  LET s1 ==
        IF s.coinPulseCount > 0 /\ s.sinceCoinPulse > SCT_QUIET_MS
          THEN LET coins == s.coinPulseCount
                   s0 == [s EXCEPT !.coinPulseCount = 0]
               IN  IF coins = 1 \/ coins = 2
                     THEN Say(Say(s0, "COIN_INSERTED", 1), "COIN_WATER", 50)
                   ELSE IF coins = 3 \/ coins = 4
                     THEN Say(Say(s0, "COIN_INSERTED", 5), "COIN_WATER", 250)
                   ELSE IF coins >= 5
                     THEN Say(Say(s0, "COIN_INSERTED", 10), "COIN_WATER", 500)
                   ELSE s0
          ELSE s
  IN  IF beat THEN Say(s1, "COIN_ARDUINO_ALIVE", 0) ELSE s1

sct_setup ==
  [setup(Factory) EXCEPT !.out = <<"COIN_TEST_STARTED", 0>>]

\* the coin boards have no lastActivity and no cupRemovedTime
board_Load(s) ==
  Load([s EXCEPT !.sinceActivity = 0, !.sinceCupRemoved = 0])

InitCoinArduino ==
  /\ pc = "ca_loop"
  /\ Started(ca_setup)

InitSimpleCoinTest ==
  /\ pc = "sct_loop"
  /\ Started(sct_setup)

CaLoop ==
  /\ pc = "ca_loop"
  /\ board_Load(ca_loop(Here))
  /\ pc' = "ca_delay"

CaDelay ==
  /\ pc = "ca_delay"
  /\ board_Load(Elapse(Here, CA_DELAY_MS))
  /\ pc' = "ca_loop"

CaCoinEdge ==
  /\ pc = "ca_delay"
  /\ coinPulseCount < MaxBurst
  /\ board_Load(ca_coinISR(Here))
  /\ UNCHANGED pc

SctLoop ==
  /\ pc = "sct_loop"
  /\ \E beat \in BOOLEAN : board_Load(sct_loop(Here, beat))
  /\ pc' = "sct_delay"

SctDelay ==
  /\ pc = "sct_delay"
  /\ board_Load(Elapse(Here, SCT_DELAY_MS))
  /\ pc' = "sct_loop"

SctCoinEdge ==
  /\ pc = "sct_delay"
  /\ coinPulseCount < MaxBurst
  /\ board_Load(sct_coinPulse(Here))
  /\ UNCHANGED pc

\* a longer delay between two runs of loop() (Serial output blocking)
BoardTick ==
  /\ pc \in {"ca_delay", "sct_delay"}
  /\ \E d \in TimeSteps : board_Load(Elapse(Here, d))
  /\ UNCHANGED pc

-----------------------------------------------------------------------------
(* The coin-classifying sketches, with bursts of up to MaxBurst pulses, no  *)
(* cup at the spout and no water flowing                                    *)

CoinLines == {"", "MODE WATER", "MODE CHARGE", "RESET"}
Spread == [c1 |-> 2, c5 |-> 5, c10 |-> 8, ppl |-> Fin(450, 1)]
StoredSignatures == {Factory, Erased, Spread}

InitCoin ==
  \/ /\ pc = "serial"
     /\ \E stored \in StoredSignatures : Started(setup(stored))
  \/ InitCoinArduino
  \/ InitSimpleCoinTest

CoinLoopSerial == SerialStep(CoinLines)

CoinLoopCup == CupStep(AbsentDurations)

CoinBurstEdge ==
  /\ pc = "serial"
  /\ coinPulseCount < MaxBurst
  /\ creditML <= MaxCredit
  /\ Load(coinISR(Here))
  /\ UNCHANGED pc

NextCoin ==
  \/ CoinLoopSerial
  \/ LoopCoin
  \/ CoinLoopCup
  \/ LoopDispensing
  \/ LoopIdle
  \/ CoinBurstEdge
  \/ Tick
  \/ CaLoop
  \/ CaDelay
  \/ CaCoinEdge
  \/ SctLoop
  \/ SctDelay
  \/ SctCoinEdge
  \/ BoardTick

SpecCoin == InitCoin /\ [][NextCoin]_vars

-----------------------------------------------------------------------------
(* Boot from any persisted calibration: arduinocode.cpp (coins, no cup) and  *)
(* WaterArduino.cpp (manual sessions) started from a pulsesPerLiter field    *)
(* holding any kind of float: not-a-number, infinite, below, at and above    *)
(* the bounds of the accepted range, and within it                           *)

StoredFloats ==
  {NaN, Inf, NegInf, Fin(-450, 1), Fin(0, 1), Fin(399, 2), Fin(200, 1),
   Fin(450, 1), Fin(1000, 1), Fin(2001, 2), Fin(1001, 1)}
StoredCalibrations == {[Factory EXCEPT !.ppl = f] : f \in StoredFloats}

InitBoot ==
  \/ /\ pc = "serial"
     /\ \E stored \in StoredCalibrations : Started(setup(stored))
  \/ /\ pc = "wa_serial"
     /\ \E stored \in StoredCalibrations : Started(wa_setup(stored))

NextBoot ==
  \/ CoinLoopSerial
  \/ LoopCoin
  \/ CoinLoopCup
  \/ LoopDispensing
  \/ LoopIdle
  \/ CoinBurstEdge
  \/ Tick
  \/ NextWater

SpecBoot == InitBoot /\ [][NextBoot]_vars

-----------------------------------------------------------------------------
(* The two sketches with a host that sends, in every iteration of loop(), a  *)
(* line that is none of the commands of the command table                    *)

UnknownLines == {"PING", "HELP"}

UnknownLoopSerial == SerialStep(UnknownLines)

WaUnknownLoopSerial ==
  /\ pc = "wa_serial"
  /\ \E cmd \in UnknownLines : \E ub \in UndefinedInts :
       wa_Load(wa_handleSerialCommand(Here, cmd, 0, 0, ub))
  /\ pc' = "wa_cup"

NextUnknown ==
  \/ UnknownLoopSerial
  \/ LoopCoin
  \/ LoopCup
  \/ LoopDispensing
  \/ LoopIdle
  \/ CoinEdge
  \/ FlowEdges
  \/ Tick
  \/ WaUnknownLoopSerial
  \/ WaLoopCup
  \/ WaLoopDispensing
  \/ WaLoopIdle
  \/ WaFlowEdges
  \/ WaTick

SpecUnknown == InitProd /\ [][NextUnknown]_vars

-----------------------------------------------------------------------------
(* Properties.  out holds what the step just taken printed, so out' in an   *)
(* action formula is the output of the step described.                      *)

Emitted(o, keyword) == \E i \in DOMAIN o : o[i][1] = keyword
Times(o, keyword) == Cardinality({i \in DOMAIN o : o[i][1] = keyword})
Args(o, keyword) == {o[i][2] : i \in {j \in DOMAIN o : o[j][1] = keyword}}

\* pulses counted since the session's baseline
Delta == flowPulseCount - startFlowCount

\* max(0, credit - dispensed_ml), times pulsesPerLiter
RemainderTimesPPL ==
  IF creditML * pulsesPerLiter - Delta * 1000 > 0
    THEN creditML * pulsesPerLiter - Delta * 1000
    ELSE 0

GraceExpired == cupRemovedFlag /\ sinceCupRemoved > CUP_REMOVED_GRACE_MS

\* C1: credit is never negative, whatever the interleaving of credit
\* additions, START, STOP, RESET, cup changes, flow pulses and timer expiries
C1_CreditNeverNegative == creditML >= 0

\* the step is an early stop of the active session: it prints CREDIT_LEFT, or
\* it is the handleDispensing() tick that finds the grace window expired
EarlyStopStep ==
  /\ dispensing
  /\ \/ Emitted(out', "CREDIT_LEFT")
     \/ /\ GraceExpired
        /\ \/ pc = "dispense" /\ pc' = "idle"
           \/ pc = "wa_dispense" /\ pc' = "wa_idle" /\ currentMode = WATER_MODE

\* what every early stop does, but for the credit it leaves
EarlyStopEffects ==
  /\ ~pump' /\ ~valve' /\ ~dispensing'
  /\ Times(out', "CREDIT_LEFT") = 1
  /\ \A tenths \in Args(out', "CREDIT_LEFT") :
       /\ 2 * pulsesPerLiter * tenths <= 20 * RemainderTimesPPL + pulsesPerLiter
       /\ 20 * RemainderTimesPPL + pulsesPerLiter < 2 * pulsesPerLiter * (tenths + 1)

C3_Conservation ==
  [][(dispensing /\ creditML = creditAtStart /\ Emitted(out', "CREDIT_LEFT")) =>
       Delta * 1000 + creditML' * pulsesPerLiter
         = creditAtStart * pulsesPerLiter]_vars

\* C4: a handleDispensing() tick of an active session that finds the target
\* reached, the grace window not expired, completes the session: pump and
\* valve off, dispensing false, DISPENSE_DONE printed once, credit 0
C4_Completion ==
  [][(/\ pc = "dispense" /\ pc' = "idle"
      /\ dispensing
      /\ Delta >= targetPulses
      /\ ~GraceExpired) =>
       /\ ~pump' /\ ~valve' /\ ~dispensing'
       /\ Times(out', "DISPENSE_DONE") = 1
       /\ creditML' = 0]_vars

\* a session has just completed in handleDispensing()
C4_Witness ==
  /\ pc = "idle"
  /\ Emitted(out, "DISPENSE_DONE")
  /\ creditML = 0
  /\ ~dispensing /\ ~pump /\ ~valve
  /\ flowPulseCount - startFlowCount >= targetPulses
  /\ targetPulses > 0

\* C5: while a session is active no start is performed: DISPENSE_START is
\* not printed, and the session keeps its baseline and its target
C5_StartRefused ==
  [][dispensing =>
       /\ ~Emitted(out', "DISPENSE_START")
       /\ dispensing' => /\ startFlowCount' = startFlowCount
                         /\ targetPulses' = targetPulses]_vars

\* C6: with no credit and no session, no step (a cup reading, START, or any
\* other) starts a session or energizes pump or valve
C6_NoStartWithoutCredit ==
  [][(creditML = 0 /\ ~dispensing) =>
       (~dispensing' /\ ~pump' /\ ~valve' /\ ~Emitted(out', "DISPENSE_START"))]_vars

\* START has been refused in WATER mode for want of credit
C6_Witness ==
  /\ pc = "wa_cup"
  /\ Emitted(out, "ERROR")
  /\ currentMode = WATER_MODE
  /\ creditML = 0
  /\ ~dispensing /\ ~pump /\ ~valve

\* C7: an early stop performed with no session active (CREDIT_LEFT printed
\* from a state with dispensing false) leaves the credit, dispensing and the
\* outputs as they were
C7_StopIdleNoOp ==
  [][(~dispensing /\ Emitted(out', "CREDIT_LEFT")) =>
       /\ creditML' = creditML
       /\ dispensing' = dispensing
       /\ pump' = pump
       /\ valve' = valve]_vars

\* handleCoin() classifies the burst in this step
HandleCoinFires ==
  /\ pc = "coin" /\ pc' = "cup"
  /\ coinPulseCount > 0
  /\ sinceCoinPulse > COIN_TIMEOUT_MS

Within(n, signature) == n >= signature - 1 /\ n <= signature + 1

Denominations ==
  {<<coin1P_pulses, 1, 50>>, <<coin5P_pulses, 5, 250>>, <<coin10P_pulses, 10, 500>>}

OutsideWindows(n) == \A den \in Denominations : ~Within(n, den[1])

\* the step prints the acceptance of a coin of `peso' worth `ml'
Accepts(peso, ml) ==
  /\ out'[1] = <<"COIN_INSERTED", peso>>
  /\ Len(out') = 2
  /\ out'[2] = IF currentMode = WATER_MODE THEN <<"COIN_WATER", ml>>
                                           ELSE <<"COIN_CHARGE", peso>>
  /\ creditML' = IF currentMode = WATER_MODE THEN creditML + ml ELSE creditML

Rejects ==
  /\ out' = <<<<"REJECTED", coinPulseCount>>>>
  /\ creditML' = creditML

\* C8 as amended: handleCoin() tries the windows of 1, 5 and 10 peso in that
\* order and classifies the burst as the first denomination whose signature
\* it is within 1 of (so a count in two windows goes to the cheaper coin);
\* a count within 1 of no signature is rejected
C8_FirstWindowWins ==
  [][HandleCoinFires =>
       IF Within(coinPulseCount, coin1P_pulses) THEN Accepts(1, 50)
       ELSE IF Within(coinPulseCount, coin5P_pulses) THEN Accepts(5, 250)
       ELSE IF Within(coinPulseCount, coin10P_pulses) THEN Accepts(10, 500)
       ELSE Rejects]_vars

\* C8 as stated: for each denomination, every count within 1 of its signature
\* is classified as that denomination, and every other count is rejected
C8_EveryWindowWins ==
  [][HandleCoinFires =>
       /\ \A den \in Denominations :
            Within(coinPulseCount, den[1]) => Accepts(den[2], den[3])
       /\ OutsideWindows(coinPulseCount) => Rejects]_vars

\* a burst has been classified as 10 peso around the signature 5, whose
\* window shares the count 4 with the 5 peso window
C8_Witness ==
  /\ pc = "cup"
  /\ Emitted(out, "COIN_INSERTED")
  /\ Args(out, "COIN_INSERTED") = {10}
  /\ coin5P_pulses = 3 /\ coin10P_pulses = 5
  /\ coinPulseCount = 0

\* a coin-classifying step: handleCoin(), or the coin boards' loop() with a
\* burst complete
ClassifyingStep ==
  \/ HandleCoinFires
  \/ /\ pc = "ca_loop" /\ pc' = "ca_delay"
     /\ coinPulseCount > 0 /\ sinceCoinPulse > CA_QUIET_MS
  \/ /\ pc = "sct_loop" /\ pc' = "sct_delay"
     /\ coinPulseCount > 0 /\ sinceCoinPulse > SCT_QUIET_MS

\* C9: in every coin-classifying sketch, classifying a burst outside all
\* three tolerance windows leaves the credit alone (no credit is granted or
\* announced), resets the burst counter to 0, and prints a reject/unknown
\* event
C9_Rejection ==
  [][(ClassifyingStep /\ OutsideWindows(coinPulseCount)) =>
       /\ creditML' = creditML
       /\ ~Emitted(out', "COIN_WATER")
       /\ coinPulseCount' = 0
       /\ (Emitted(out', "REJECTED") \/ Emitted(out', "COIN_UNKNOWN"))]_vars

\* C10: in WATER mode, a burst within a tolerance window is accepted: the
\* output is COIN_INSERTED <peso> once and then COIN_WATER <ml> once, the
\* credit grows by exactly that ml (50, 250 or 500 for 1, 5 or 10 peso), the
\* burst counter is reset to 0, and the activity timestamp is refreshed
C10_WaterAcceptance ==
  [][(/\ HandleCoinFires
      /\ currentMode = WATER_MODE
      /\ ~OutsideWindows(coinPulseCount)) =>
       /\ \E coin \in {<<1, 50>>, <<5, 250>>, <<10, 500>>} :
            /\ out' = <<<<"COIN_INSERTED", coin[1]>>, <<"COIN_WATER", coin[2]>>>>
            /\ creditML' = creditML + coin[2]
       /\ coinPulseCount' = 0
       /\ sinceActivity' = 0]_vars

\* a 10 peso coin has been accepted on top of a credit of 50 ml
C10_Witness ==
  /\ pc = "cup"
  /\ out = <<<<"COIN_INSERTED", 10>>, <<"COIN_WATER", 500>>>>
  /\ currentMode = WATER_MODE
  /\ creditML = 550
  /\ coinPulseCount = 0
  /\ sinceActivity = 0

\* C11: while currentMode is CHARGE no session starts, by a cup reading or by
\* START, and pump and valve are off, also when credit was accumulated in
\* WATER mode or a session was active when the mode was switched
C11_ChargeSuppresses ==
  [][(currentMode = CHARGE_MODE /\ currentMode' = CHARGE_MODE) =>
       /\ ~Emitted(out', "DISPENSE_START")
       /\ (~dispensing => ~dispensing')
       /\ ~pump' /\ ~valve']_vars

\* the cup trigger has fired for the credit held and neither a completion, nor
\* a refund to zero, nor a reset has happened since
TriggerFired == creditAtStart > 0 /\ creditML > 0

C13_CountdownBeforeDispense ==
  [][(~dispensing /\ creditML > 0 /\ Emitted(out', "CUP_DETECTED")) =>
       /\ ~Emitted(out', "DISPENSE_START")
       /\ ~dispensing'
       /\ ~pump' /\ ~valve']_vars

\* C14: the handleCup() call that first observes the cup gone during a session
\* (CUP_REMOVED printed) turns pump and valve off, and they stay off while the
\* removal is pending (cupRemovedFlag set)
C14_RemovalStopsActuators ==
  [][(dispensing /\ (Emitted(out', "CUP_REMOVED") \/ cupRemovedFlag')) =>
       (~pump' /\ ~valve')]_vars

\* the cup is away from an active session and the grace window is still open
RemovalPending ==
  dispensing /\ cupRemovedFlag /\ sinceCupRemoved <= CUP_REMOVED_GRACE_MS

\* C15: a handleCup() call made while the grace window is open leaves the
\* session active with the same startFlowCount and targetPulses and prints no
\* CREDIT_LEFT; it clears cupRemovedFlag exactly when it observes the cup
\* back (CUP_DETECTED printed); and with the flag cleared the
\* handleDispensing() tick that follows stops nothing early
C15_ReturnResumes ==
  [][/\ (pc = "cup" /\ RemovalPending) =>
          /\ dispensing' /\ pump' /\ valve'
          /\ startFlowCount' = startFlowCount
          /\ targetPulses' = targetPulses
          /\ creditML' = creditML
          /\ ~Emitted(out', "CREDIT_LEFT")
          /\ Emitted(out', "CUP_DETECTED") <=> ~cupRemovedFlag'
     /\ (pc = "dispense" /\ dispensing /\ ~cupRemovedFlag) =>
          /\ ~Emitted(out', "CREDIT_LEFT")
          /\ dispensing' => /\ startFlowCount' = startFlowCount
                            /\ targetPulses' = targetPulses]_vars

\* the cup has come back to a session that has dispensed part of its target,
\* and the session goes on with the credit it started with
C15_Witness ==
  /\ pc = "dispense"
  /\ out = <<<<"CUP_DETECTED", 1>>>>
  /\ ~cupRemovedFlag
  /\ dispensing /\ pump /\ valve
  /\ flowPulseCount > startFlowCount
  /\ flowPulseCount - startFlowCount < targetPulses
  /\ creditML = creditAtStart

\* C16: a session whose cup is taken away and stays away ends: with every
\* reading of the session one of no cup in range, a session running in WATER
\* mode is eventually stopped (dispensing false), or the mode is switched
C16_AbsenceEndsSession ==
  (dispensing /\ currentMode = WATER_MODE)
    ~> (~dispensing \/ currentMode # WATER_MODE)

\* the step is the inactivity check that ends an iteration of loop()
InactivityCheck == pc \in {"idle", "wa_idle"}

LoopOrder ==
  /\ pc = "serial" => pc' \in {"serial", "coin"}
  /\ pc = "coin" => pc' = "cup"
  /\ pc = "cup" => pc' = "dispense"
  /\ pc = "dispense" => pc' \in {"dispense", "idle"}
  /\ pc = "idle" => pc' = "serial"

\* handleCoin() has just credited a coin in WATER mode with no session
\* active, and handleCup() is the next call of this iteration
CoinJustCredited ==
  /\ pc = "cup"
  /\ Emitted(out, "COIN_WATER")
  /\ currentMode = WATER_MODE
  /\ ~dispensing

\* C18: loop() runs command, coin, cup, dispense tick in this order; the coin
\* classified in an iteration is in creditML when handleCup() of the same
\* iteration runs, and the session that call starts has
\* targetPulses = (unsigned long)(creditML / 1000.0 * pulsesPerLiter) for
\* that credit, which stays in creditML
C18_CoinThenCup ==
  [][/\ LoopOrder
     /\ (pc = "coin" /\ currentMode = WATER_MODE /\ Emitted(out', "COIN_WATER")) =>
          \E ml \in Args(out', "COIN_WATER") : creditML' = creditML + ml
     /\ (CoinJustCredited /\ Emitted(out', "DISPENSE_START")) =>
          /\ creditML >= 50
          /\ targetPulses' = (creditML * pulsesPerLiter) \div 1000
          /\ startFlowCount' = flowPulseCount
          /\ creditML' = creditML
          /\ dispensing' /\ pump' /\ valve']_vars

\* a second 1 peso coin has been credited on top of 50 ml and the cup reading
\* of the same iteration is next
C18_Witness ==
  /\ CoinJustCredited
  /\ out = <<<<"COIN_INSERTED", 1>>, <<"COIN_WATER", 50>>>>
  /\ creditML = 100
  /\ ~pump /\ ~valve

\* the persisted pulsesPerLiter field is a number within [200, 1000]
StoredInRange ==
  /\ eeprom.ppl.k = "fin"
  /\ eeprom.ppl.n >= 200 * eeprom.ppl.d
  /\ eeprom.ppl.n <= 1000 * eeprom.ppl.d

\* C19: after setup() pulsesPerLiter lies in [200, 1000] whatever the
\* persisted field holds: a field within the range is kept, one that is out
\* of the range or not a number is replaced by 450
C19_CalibrationClamp ==
  /\ pulsesPerLiter >= 200
  /\ pulsesPerLiter <= 1000
  /\ IF StoredInRange
       THEN pulsesPerLiter * eeprom.ppl.d = eeprom.ppl.n
       ELSE pulsesPerLiter = 450

\* setup() has completed on a persisted field that is not a number
C19_Witness ==
  /\ pc \in {"serial", "wa_serial"}
  /\ (Emitted(out, "READY") \/ Emitted(out, "WATER_ARDUINO_READY"))
  /\ eeprom.ppl = NaN
  /\ pulsesPerLiter = 450

\* the step is a handleSerialCommand() call that reads a line
CommandStep ==
  \/ pc = "serial" /\ pc' = "coin"
  \/ pc = "wa_serial" /\ pc' = "wa_cup"

\* C20: a line that matches none of the recognized commands is answered (the
\* "unknown command" event: some line is printed in reply) and changes no
\* controller state: credit, mode, dispensing, pump and valve
C20_UnknownCommand ==
  [][CommandStep =>
       /\ Len(out') > 0
       /\ creditML' = creditML
       /\ currentMode' = currentMode
       /\ dispensing' = dispensing
       /\ pump' = pump /\ valve' = valve]_vars

\* the step starts a session: DISPENSE_START is printed
StartStep == Emitted(out', "DISPENSE_START")

\* C21: the step that starts a session for the credit ml = creditML sets
\* targetPulses to ml / 1000 * pulsesPerLiter rounded to the nearest pulse
\* (halves upwards) and startFlowCount to the current flowPulseCount
C21_TargetRounded ==
  [][(StartStep /\ creditML > 0 /\ pulsesPerLiter > 0) =>
       /\ targetPulses' = (2 * creditML * pulsesPerLiter + 1000) \div 2000
       /\ startFlowCount' = flowPulseCount]_vars

\* everything but the pulse counter, the time of the last accepted pulse and
\* the Serial output
BesideCoinPulse ==
  <<pc, currentMode, pulsesPerLiter, coin1P_pulses, coin5P_pulses,
    coin10P_pulses, flowPulseCount, dispensing, creditML, targetPulses,
    startFlowCount, sinceActivity, sinceCupRemoved, cupRemovedFlag,
    lastCupDetected, cupConsecutiveReadings, pump, valve, eeprom,
    creditAtStart>>

\* C22: the pulse counter grows only by a coin edge that comes more than
\* COIN_DEBOUNCE_MS after the last accepted one, by exactly 1, with the time
\* of the last accepted pulse set to now and no other state changed; within
\* the debounce window no step changes the counter or refreshes that time
C22_CoinDebounce ==
  [][/\ coinPulseCount' > coinPulseCount =>
          /\ coinPulseCount' = coinPulseCount + 1
          /\ sinceCoinPulse > COIN_DEBOUNCE_MS
          /\ sinceCoinPulse' = 0
          /\ UNCHANGED BesideCoinPulse
     /\ sinceCoinPulse <= COIN_DEBOUNCE_MS =>
          /\ coinPulseCount' = coinPulseCount
          /\ sinceCoinPulse' >= sinceCoinPulse]_vars

\* the second pulse of a burst has just been counted by arduinocode.cpp
C22_Witness ==
  /\ pc = "serial"
  /\ coinPulseCount = 2
  /\ sinceCoinPulse = 0
  /\ creditML = 0

CoinEvents ==
  {"COIN_INSERTED", "COIN_WATER", "COIN_CHARGE", "REJECTED", "COIN_UNKNOWN"}

CoinEventEmitted(o) == \E keyword \in CoinEvents : Emitted(o, keyword)

\* the step is handleCoin(), or the coin boards' classifying part of loop()
CoinHandlerStep ==
  \/ pc = "coin" /\ pc' = "cup"
  \/ pc = "ca_loop" /\ pc' = "ca_delay"
  \/ pc = "sct_loop" /\ pc' = "sct_delay"

\* C23: a burst is classified only with coinPulseCount > 0 and more than the
\* quiet timeout elapsed since the last accepted pulse: only such a step
\* prints a coin event or takes pulses off the counter, and a coin handler
\* run at any other moment leaves the credit and the counter as they are, so
\* that pulses following one another within the timeout add up to one burst
C23_QuietPeriod ==
  [][/\ (CoinEventEmitted(out') \/ coinPulseCount' < coinPulseCount) =>
          ClassifyingStep
     /\ (CoinHandlerStep /\ ~ClassifyingStep) =>
          /\ ~CoinEventEmitted(out')
          /\ creditML' = creditML
          /\ coinPulseCount' = coinPulseCount
          /\ sinceCoinPulse' = sinceCoinPulse]_vars

\* handleCoin() has run exactly COIN_TIMEOUT_MS after the second pulse of a
\* burst and has left the burst open
C23_Witness ==
  /\ pc = "cup"
  /\ coinPulseCount = 2
  /\ sinceCoinPulse = COIN_TIMEOUT_MS
  /\ out = <<>>
  /\ creditML = 0

-----------------------------------------------------------------------------
(* arduinocode.cpp with a rangefinder that shows a cup in one sample at      *)
(* most before any session: a reading of a cup in range is possible only in  *)
(* the iteration that has just credited a coin, and only as long as no       *)
(* session has been started since boot (targetPulses still 0); every sample  *)
(* before it is one of no cup in range                                       *)

FlickerLoopCup ==
  CupStep(IF CoinJustCredited /\ targetPulses = 0
            THEN Durations
            ELSE AbsentDurations)

NextFlicker ==
  \/ LoopSerial
  \/ LoopCoin
  \/ FlickerLoopCup
  \/ LoopDispensing
  \/ LoopIdle
  \/ CoinEdge
  \/ FlowEdges
  \/ Tick

SpecFlicker == Init /\ [][NextFlicker]_vars

\* C24: a single raw sample that differs from the presence held so far does
\* not change the presence handleCup() acts on: with every sample before it
\* one of no cup, one sample of a cup in range with credit > 0 starts no
\* dispense and leaves pump and valve off
C24_IsolatedSampleIgnored ==
  [][(pc = "cup" /\ ~dispensing /\ targetPulses = 0) =>
       /\ ~Emitted(out', "CUP_DETECTED")
       /\ ~Emitted(out', "DISPENSE_START")
       /\ ~dispensing' /\ ~pump' /\ ~valve']_vars

-----------------------------------------------------------------------------
(* WaterArduino.cpp with a cup standing at the spout from boot on: every     *)
(* rangefinder sample is one of a cup within CUP_DISTANCE_CM.  loop() runs   *)
(* for ever.                                                                 *)

PresentDurations == {300, 500}

WaLoopCupPresent ==
  /\ pc = "wa_cup"
  /\ IF currentMode = WATER_MODE
       THEN \E duration \in PresentDurations : \E ub \in UndefinedInts :
              wa_Load(wa_handleCup(Here, duration, ub))
       ELSE wa_Load(Here)
  /\ pc' = "wa_dispense"

NextWaterCup ==
  \/ WaLoopSerial
  \/ WaLoopCupPresent
  \/ WaLoopDispensing
  \/ WaLoopIdle
  \/ WaFlowEdges
  \/ WaTick

SpecWaterCup ==
  /\ InitWater
  /\ [][NextWaterCup]_vars
  /\ WF_vars(WaLoopSerial)
  /\ WF_vars(WaLoopCupPresent)
  /\ WF_vars(WaLoopDispensing)
  /\ WF_vars(WaLoopIdle)

\* C25: from no cup detected, with the raw in-range reading true in every
\* sample, detectCup() comes to return true and handleCup() sets
\* lastCupDetected (printing CUP_DETECTED), unless the host takes the board
\* out of WATER mode, where handleCup() is not called
C25_DetectionEventually ==
  <>(lastCupDetected \/ currentMode # WATER_MODE)

\* C26: a coin accepted during a session is not lost: when a session during
\* which the credit has grown (creditML above the credit the session started
\* with) completes with DISPENSE_DONE, either the whole credit has been
\* dispensed (to within one pulse) or what the coins added is still owed
C26_CoinDuringSessionKept ==
  [][(dispensing /\ creditML > creditAtStart /\ Emitted(out', "DISPENSE_DONE")) =>
       \/ (Delta + 1) * 1000 >= creditML * pulsesPerLiter
       \/ creditML' >= creditML - creditAtStart]_vars

-----------------------------------------------------------------------------
(* arduinocode.cpp with the coin interrupt arriving while handleCoin() runs *)

\* handleCoin() with one falling edge on COIN_PIN served by coinISR() during
\* the call.  at_ says where: "none": no edge; "before_read": after the test
\* of the if and before 'int pulses = coinPulseCount'; "before_reset": after
\* that read and before 'coinPulseCount = 0'.  With the test failed the call
\* does nothing and the edge is served as at any other moment.
handleCoin_interrupted(s, at_) ==
  IF at_ = "none" THEN handleCoin(s)
  ELSE IF ~(s.coinPulseCount > 0 /\ s.sinceCoinPulse > COIN_TIMEOUT_MS)
    THEN coinISR(s)
  ELSE IF at_ = "before_read"
    THEN [handleCoin([s EXCEPT !.coinPulseCount = coinISR(s).coinPulseCount])
            EXCEPT !.sinceCoinPulse = coinISR(s).sinceCoinPulse]
  ELSE [handleCoin(s) EXCEPT !.sinceCoinPulse = coinISR(s).sinceCoinPulse]

InterruptPoints == {"none", "before_read", "before_reset"}

LoopCoinInterrupted ==
  /\ pc = "coin"
  /\ \E at_ \in InterruptPoints :
       /\ at_ # "none" => (coinPulseCount < MaxBurst /\ creditML <= MaxCredit)
       /\ Load(handleCoin_interrupted(Here, at_))
  /\ pc' = "cup"

NextCoinRace ==
  \/ CoinLoopSerial
  \/ LoopCoinInterrupted
  \/ CoinLoopCup
  \/ LoopDispensing
  \/ LoopIdle
  \/ CoinBurstEdge
  \/ Tick

SpecCoinRace == Init /\ [][NextCoinRace]_vars

\* the coin a burst of n pulses is classified as (0: none)
PesoOf(n) ==
  IF Within(n, coin1P_pulses) THEN 1
  ELSE IF Within(n, coin5P_pulses) THEN 5
  ELSE IF Within(n, coin10P_pulses) THEN 10
  ELSE 0

\* the step prints what the classification of a burst of n pulses prints
ClassifiedAs(n) ==
  IF PesoOf(n) = 0
    THEN Args(out', "REJECTED") = {n}
    ELSE Args(out', "COIN_INSERTED") = {PesoOf(n)}

\* C27: no pulse counted by coinISR() is lost: when a pulse is accepted
\* during a handleCoin() call that classifies a burst (the time of the last
\* accepted pulse is refreshed during the call), either the pulse is still
\* in coinPulseCount afterwards, for the next burst, or the burst classified
\* is the one that includes it
C27_NoPulseLost ==
  [][(HandleCoinFires /\ sinceCoinPulse' = 0) =>
       \/ coinPulseCount' = 1
       \/ coinPulseCount' = 0 /\ ClassifiedAs(coinPulseCount + 1)]_vars


-----------------------------------------------------------------------------
(* arduinocode.cpp with the flow calibration among the host's commands      *)

CalLines == {"", "FLOWCAL", "RESET"}

CalLoopSerial == SerialStep(CalLines)

\* a falling edge on COIN_PIN; the customer pays while the credit shown is in
\* 0 .. MaxCredit
CalCoinEdge ==
  /\ pc = "serial"
  /\ coinPulseCount < MaxCoinPulses
  /\ creditML \in 0..MaxCredit
  /\ Load(coinISR(Here))
  /\ UNCHANGED pc

NextCal ==
  \/ CalLoopSerial
  \/ LoopCoin
  \/ LoopCup
  \/ LoopDispensing
  \/ LoopIdle
  \/ CalCoinEdge
  \/ FlowEdges
  \/ Tick

SpecCal == Init /\ [][NextCal]_vars

\* C28: at every boundary between two iterations of loop() (no calibration
\* procedure is running there: calibrateFlow() returns inside the iteration),
\* the pump and the valve are energized if and only if dispensing is true
C28_ActuatorsTrackSession ==
  pc = "serial" => ((pump <=> dispensing) /\ (valve <=> dispensing))


\* C29: whenever dispensing is true, flowPulseCount >= startFlowCount: the
\* unsigned difference flowPulseCount - startFlowCount does not wrap around
C29_FlowBaseline == dispensing => flowPulseCount >= startFlowCount

\* the step converts pulses to millilitres or computes a target: it starts a
\* session, or it is a handleDispensing() tick of an active session, or it
\* ends a session
ConversionStep ==
  \/ Emitted(out', "DISPENSE_START")
  \/ Emitted(out', "DISPENSE_DONE")
  \/ Emitted(out', "CREDIT_LEFT")
  \/ pc = "dispense" /\ pc' = "idle" /\ dispensing

\* C30: pulsesPerLiter is strictly positive at every volume conversion and
\* every target computation
C30_PulsesPerLiterPositive ==
  [][ConversionStep => pulsesPerLiter > 0]_vars


-----------------------------------------------------------------------------
(* arduinocode.cpp with the coin calibration among the host's commands      *)

CoinCalLines == {"", "CAL", "RESET"}

\* the host starts a calibration while the credit shown is at most MaxCredit
CoinCalOffered == {cmd \in CoinCalLines : cmd = "CAL" => creditML <= MaxCredit}

CoinCalLoopSerial == SerialStep(CoinCalOffered)

NextCoinCal ==
  \/ CoinCalLoopSerial
  \/ LoopCoin
  \/ CoinLoopCup
  \/ LoopDispensing
  \/ LoopIdle
  \/ CoinBurstEdge
  \/ Tick

SpecCoinCal == Init /\ [][NextCoinCal]_vars

\* the signature of denomination k in memory and in the persistent store
SignatureOf(k) ==
  IF k = 1 THEN <<coin1P_pulses, eeprom.c1>>
  ELSE IF k = 5 THEN <<coin5P_pulses, eeprom.c5>>
  ELSE <<coin10P_pulses, eeprom.c10>>

\* C31: when waitForCoinPulse() times out for a denomination during a coin
\* calibration ("Timeout. Skipped coin."), that denomination's signature
\* keeps its previous value in memory and in the persistent store
C31_TimeoutKeepsSignature ==
  [][\A k \in {1, 5, 10} :
       k \in Args(out', "CAL_TIMEOUT") => SignatureOf(k)' = SignatureOf(k)]_vars


\* terminating events of a session printed by the step
TerminatingEvents ==
  Times(out', "DISPENSE_DONE") + Times(out', "CREDIT_LEFT")

\* C32: in arduinocode.cpp a DISPENSE_START is printed only by a step that
\* opens a session, a terminating event (DISPENSE_DONE or CREDIT_LEFT) only
\* by a step that closes the active session, and a session is closed by a
\* step that prints exactly one terminating event or by a reset: between two
\* DISPENSE_STARTs there is exactly one terminating event unless a reset
\* ended the session, never both events and never one of them twice
C32_SessionPairing ==
  [][/\ Emitted(out', "DISPENSE_START") =>
          /\ ~dispensing /\ dispensing'
          /\ Times(out', "DISPENSE_START") = 1
          /\ TerminatingEvents = 0
     /\ (~dispensing /\ dispensing') => Emitted(out', "DISPENSE_START")
     /\ TerminatingEvents > 0 =>
          /\ dispensing /\ ~dispensing'
          /\ TerminatingEvents = 1
     /\ (dispensing /\ ~dispensing') =>
          \/ TerminatingEvents = 1
          \/ Emitted(out', "SYSTEM_RESET")]_vars

\* the grace time expired and handleCup() has just closed the session; the
\* handleDispensing() of the same iteration comes next
C32_Witness ==
  /\ pc = "dispense"
  /\ Emitted(out, "CREDIT_LEFT")
  /\ ~dispensing
  /\ creditML > 0


-----------------------------------------------------------------------------
(* arduinocode.cpp serving its first customer, with a running loop(), a     *)
(* passing time and a flow sensor that pulses while the pump is on          *)

SessionLines == {"", "FLOWCAL"}

\* the host starts a flow calibration only during a session, with the pump on
SessionOffered == {cmd \in SessionLines : cmd = "FLOWCAL" => (dispensing /\ pump)}

SessionLoopSerial == SerialStep(SessionOffered)

\* the one pulse of a 1-peso coin, paid by the first customer
FirstCoinEdge ==
  /\ pc = "serial"
  /\ coinPulseCount = 0
  /\ creditML = 0
  /\ ~dispensing
  /\ flowPulseCount = 0
  /\ Load(coinISR(Here))
  /\ UNCHANGED pc

\* water runs through the sensor while the pump is on
FlowWhilePumping ==
  /\ pc \in {"serial", "dispense"}
  /\ pump
  /\ \E n \in FlowSteps :
       /\ flowPulseCount + n <= MaxFlow
       /\ Load(flowISR(Here, n))
  /\ UNCHANGED pc

NextSession ==
  \/ SessionLoopSerial
  \/ LoopCoin
  \/ LoopCup
  \/ LoopDispensing
  \/ LoopIdle
  \/ FirstCoinEdge
  \/ FlowWhilePumping
  \/ Tick

SpecSession ==
  /\ Init
  /\ [][NextSession]_vars
  /\ WF_vars(SessionLoopSerial)
  /\ WF_vars(LoopCoin)
  /\ WF_vars(LoopCup)
  /\ WF_vars(LoopDispensing)
  /\ WF_vars(LoopIdle)
  /\ SF_vars(FlowWhilePumping)
  /\ SF_vars(Tick)

\* C33: with loop() running and the flow sensor pulsing while the pump is
\* on, every dispense session that starts eventually ends: dispensing
\* becomes false with pump and valve off
C33_SessionEnds == dispensing ~> (~dispensing /\ ~pump /\ ~valve)


\* C34: in arduinocode.cpp, at every boundary between two iterations of
\* loop() cupRemovedFlag implies dispensing, and no handleCup() call is made
\* with the flag set and no session active, so its branch 'cup absent, not
\* dispensing, flag set' is never taken
C34_FlagOnlyInSession ==
  pc \in {"serial", "cup"} => (cupRemovedFlag => dispensing)

\* the cup was taken away during a session: the flag is set, at the end of
\* the iteration
C34_Witness == pc = "serial" /\ cupRemovedFlag /\ dispensing

=============================================================================
